---- MODULE Spec2Model ----
(***************************************************************************)
(* Model of kigichang/actix-mw: the generic middleware harness             *)
(* (src/src/lib.rs: Handler, Middleware::call, HandlerFuture::poll,        *)
(* match_uri) and the CSRF handler (src/src/csrf.rs: CSRF::token,          *)
(* CSRF::verify_token, skip, process, post).                               *)
(*                                                                         *)
(* Strings, header values and tokens are sequences of byte codes (ASCII).  *)
(* The widths of the token are scaled: the timestamp is TsLen bytes        *)
(* (i64 = 8 in the code) and the digest HashLen bytes (SHA-256 = 32 in the *)
(* code); all arithmetic on the timestamp keeps the scaled width.          *)
(***************************************************************************)
EXTENDS Integers, Sequences, FiniteSets, TLC

\* ------------------------------------------------------------------ bounds
\* bytes of the little-endian timestamp (8 in the code, i64)
TsLen == 2
\* longest secret ("salt"), in bytes
MaxSaltLen == 1
\* largest clock reading (milliseconds)
MaxNow == 2
\* largest validity window (milliseconds)
MaxWindow == 1
\* polls of one pipeline future that return Pending
MaxPolls == 1
\* accepted verifications of one minted token that are counted
MaxUses == 2
\* longest list of exempt paths when skip alone is followed
MaxExempt == 2

\* ------------------------------------------------------------ byte strings
Slash == <<47>>
Str_h == <<104>>
Str_c == <<99>>
Str_l == <<108>>

\* bits of the timestamp, and the range of the signed integer of that width
TsBits == 8 * TsLen
TsMod == 2 ^ TsBits
TsMin == 0 - (2 ^ (TsBits - 1))
TsMax == (2 ^ (TsBits - 1)) - 1

\* length of the digest: SHA-256 is 32 bytes in the code; here wide enough
\* for the digest to be collision-free on the inputs of the model
HashLen == TsLen + MaxSaltLen + 1
TokenLen == TsLen + HashLen

RECURSIVE Pow256(_)
Pow256(n) == IF n = 0 THEN 1 ELSE 256 * Pow256(n - 1)

\* i64::to_le_bytes, at the scaled width (two's complement, low byte first)
ToLeBytes(v) ==
  LET u == v % TsMod
  IN  [i \in 1..TsLen |-> (u \div Pow256(i - 1)) % 256]

RECURSIVE LeSum(_, _)
LeSum(b, n) == IF n = 0 THEN 0 ELSE LeSum(b, n - 1) + b[n] * Pow256(n - 1)

\* i64::from_le_bytes, at the scaled width
FromLeBytes(b) ==
  LET u == LeSum(b, TsLen)
  IN  IF u > TsMax THEN u - TsMod ELSE u

\* sha2::Sha256::digest: a fixed-length digest, collision-free on the
\* inputs of the model (the input is padded, then every output byte mixes
\* the byte at its place with the one before it)
Sha256Pad(src) ==
  [i \in 1..HashLen |->
     IF i <= Len(src) THEN src[i] ELSE IF i = Len(src) + 1 THEN 128 ELSE 0]

Sha256(src) ==
  LET p == Sha256Pad(src)
  IN  [i \in 1..HashLen |->
         (167 * p[i] + 13 * (IF i = 1 THEN 89 ELSE p[i - 1]) + 31 * i) % 256]

\* hex::encode: two lowercase hex digits per byte
HexDigits == <<48, 49, 50, 51, 52, 53, 54, 55, 56, 57, 97, 98, 99, 100, 101, 102>>

HexEncode(bytes) ==
  [i \in 1..(2 * Len(bytes)) |->
     LET b == bytes[(i + 1) \div 2]
     IN  IF i % 2 = 1 THEN HexDigits[(b \div 16) + 1] ELSE HexDigits[(b % 16) + 1]]

\* the value of one hex digit, were a character that is none read as 0
HexValLenient(c) ==
  IF c \in 48..57 THEN c - 48
  ELSE IF c \in 97..102 THEN c - 87
  ELSE IF c \in 65..70 THEN c - 55
  ELSE 0

\* the value of one hex digit, -1 when the character is none; hex::decode
\* takes both cases
HexVal(c) ==
  IF c \in 48..57 THEN c - 48
  ELSE IF c \in 97..102 THEN c - 87
  ELSE IF c \in 65..70 THEN c - 55
  ELSE -1

\* hex::decode: Err on an odd length or on a character that is no hex digit
HexDecode(s) ==
  IF Len(s) % 2 # 0 \/ \E i \in 1..Len(s) : HexVal(s[i]) = -1
  THEN [ok |-> FALSE, val |-> <<>>]
  ELSE [ok |-> TRUE,
        val |-> [i \in 1..(Len(s) \div 2) |->
                   16 * HexVal(s[2 * i - 1]) + HexVal(s[2 * i])]]

\* CSRF::token, were the timestamp cut to whole windows of two milliseconds
TokenCoarse(salt, now_ms) ==
  LET now_bytes == ToLeBytes(now_ms - (now_ms % 2))
      hash == Sha256(now_bytes \o salt)
  IN  HexEncode(now_bytes \o hash)

\* CSRF::token, with the clock reading it takes
Token(salt, now_ms) ==
  LET now_bytes == ToLeBytes(now_ms)
      hash == Sha256(now_bytes \o salt)
  IN  HexEncode(now_bytes \o hash)

\* now - generate_time on i64: the exact difference, and whether it leaves
\* the range of the type
SubOverflows(a, b) == (a - b) > TsMax \/ (a - b) < TsMin

WrappingSub(a, b) == (((a - b) - TsMin) % TsMod) + TsMin

\* ------------------------------------------------------------- the program
VARIABLES
  cfg,              \* the CSRF handler: skip_urls, salt, effective, header_name
  overflow_checks,  \* the build: TRUE when integer overflow panics (debug)
  now,              \* chrono::Utc::now().timestamp_millis()
  task,             \* per request: the HandlerFuture and what ran for it
  codec             \* direct calls of generate_token / verify_token

vars == <<cfg, overflow_checks, now, task, codec>>

\* the timestamp field of a decoded token
TsField(bytes) == SubSeq(bytes, 1, TsLen)

\* whether the subtraction of line 67 panics: it is reached with a
\* TokenLen-byte token whose timestamp is not after now, and it overflows
\* in a build that checks overflow
VerifyPanics(c, checks, test_token, now_ms) ==
  LET d == HexDecode(test_token)
  IN  /\ d.ok
      /\ Len(d.val) = TokenLen
      /\ ~(now_ms < FromLeBytes(TsField(d.val)))
      /\ checks
      /\ SubOverflows(now_ms, FromLeBytes(TsField(d.val)))

ExpiredLax(c, now_ms, generate_time) ==
  LET delta == WrappingSub(now_ms, generate_time)
  IN  delta >= c.effective

ExpiredOffByOne(c, now_ms, generate_time) ==
  LET delta == WrappingSub(now_ms, generate_time)
  IN  delta > c.effective + 1

\* the expiry test of lines 67-70: TRUE when the token is rejected as expired
Expired(c, now_ms, generate_time) ==
  LET delta == WrappingSub(now_ms, generate_time)
  IN  delta > c.effective

\* CSRF::verify_token, were the test now < generate_time left out
VerifyTokenNoFuture(c, test_token, now_ms) ==
  LET d == HexDecode(test_token)
  IN  IF ~d.ok THEN FALSE
      ELSE IF Len(d.val) # TokenLen THEN FALSE
      ELSE LET generate_time == FromLeBytes(TsField(d.val))
           IN  IF Expired(c, now_ms, generate_time) THEN FALSE
               ELSE Sha256(TsField(d.val) \o c.salt)
                      = SubSeq(d.val, TsLen + 1, Len(d.val))

\* CSRF::verify_token, when it returns
VerifyToken(c, test_token, now_ms) ==
  LET d == HexDecode(test_token)
  IN  IF ~d.ok THEN FALSE
      ELSE IF Len(d.val) # TokenLen THEN FALSE
      ELSE LET generate_time == FromLeBytes(TsField(d.val))
           IN  IF now_ms < generate_time THEN FALSE
               ELSE IF Expired(c, now_ms, generate_time) THEN FALSE
               ELSE Sha256(TsField(d.val) \o c.salt)
                      = SubSeq(d.val, TsLen + 1, Len(d.val))

\* str::starts_with
StartsWith(s, prefix) ==
  Len(prefix) <= Len(s) /\ SubSeq(s, 1, Len(prefix)) = prefix

\* match_uri, were the '/' after check left out
match_uri_prefix(uri, check) ==
  IF uri = check THEN TRUE ELSE StartsWith(uri, check)

\* match_uri
match_uri(uri, check) ==
  IF uri = check THEN TRUE ELSE StartsWith(uri, check \o Slash)

\* CSRF::skip
Skip(c, req) ==
  \E i \in 1..Len(c.skip_urls) : match_uri(req.path, c.skip_urls[i])

\* ------------------------------------------------- requests and responses
HeaderNames == {"x-token", "x-other"}
NoHeaders == [n \in HeaderNames |-> <<>>]

\* HeaderMap::get: the first value under the name, if any
HasHeader(headers, name) == Len(headers[name]) > 0
GetHeader(headers, name) == headers[name][1]

AppendHeader(headers, name, value) ==
  [headers EXCEPT ![name] = Append(headers[name], value)]

\* HeaderMap::insert: the one value replaces every value under the name
InsertHeader(headers, name, value) == [headers EXCEPT ![name] = <<value>>]

\* HeaderValue::to_str: Ok when every byte is visible ASCII or a tab
ToStrOk(value) ==
  \A i \in 1..Len(value) : (value[i] >= 32 /\ value[i] < 127) \/ value[i] = 9

\* HeaderValue::from_str: Ok when every byte is at least 32 and not 127, or a tab
FromStrOk(s) ==
  \A i \in 1..Len(s) : (s[i] >= 32 /\ s[i] # 127) \/ s[i] = 9

\* no request: a request's path is never empty
NoReq == [path |-> <<>>, headers |-> NoHeaders]
NoResp == [status |-> 0, headers |-> NoHeaders, body |-> ""]

\* HttpResponse::Forbidden().body("Forbidden")
Forbidden == [status |-> 403, headers |-> NoHeaders, body |-> "Forbidden"]
\* HttpResponse::InternalServerError().body("InternalServerError")
InternalServerError ==
  [status |-> 500, headers |-> NoHeaders, body |-> "InternalServerError"]

\* Either<ServiceResponse, ServiceRequest>
Left(res) == [tag |-> "Left", res |-> res, req |-> NoReq]
Right(req) == [tag |-> "Right", res |-> NoResp, req |-> req]
NoEither == [tag |-> "None", res |-> NoResp, req |-> NoReq]

\* Result<ServiceResponse, Error>
Ok(res) == [tag |-> "Ok", res |-> res, err |-> ""]
Err(e) == [tag |-> "Err", res |-> NoResp, err |-> e]
NoResult == [tag |-> "None", res |-> NoResp, err |-> ""]

\* CSRF::process, were a missing header told apart in the body
ProcessTelling(c, req, now_ms) ==
  IF HasHeader(req.headers, c.header_name)
  THEN LET token == GetHeader(req.headers, c.header_name)
       IN  IF ToStrOk(token)
           THEN IF VerifyToken(c, token, now_ms) THEN Right(req) ELSE Left(Forbidden)
           ELSE Left(Forbidden)
  ELSE Left([Forbidden EXCEPT !.body = "Missing"])

\* CSRF::process, when verify_token returns
Process(c, req, now_ms) ==
  IF HasHeader(req.headers, c.header_name)
  THEN LET token == GetHeader(req.headers, c.header_name)
       IN  IF ToStrOk(token)
           THEN IF VerifyToken(c, token, now_ms) THEN Right(req) ELSE Left(Forbidden)
           ELSE Left(Forbidden)
  ELSE Left(Forbidden)

\* whether CSRF::process panics: verify_token is reached and panics
ProcessPanics(c, checks, req, now_ms) ==
  /\ HasHeader(req.headers, c.header_name)
  /\ ToStrOk(GetHeader(req.headers, c.header_name))
  /\ VerifyPanics(c, checks, GetHeader(req.headers, c.header_name), now_ms)

\* StatusCode::is_success
IsSuccess(status) == status >= 200 /\ status < 300

\* CSRF::post
Post(c, resp, now_ms) ==
  IF IsSuccess(resp.status)
  THEN LET token == Token(c.salt, now_ms)
       IN  IF ~FromStrOk(token) THEN InternalServerError
           ELSE [resp EXCEPT !.headers = InsertHeader(resp.headers, c.header_name, token)]
  ELSE resp

\* ------------------------------------------------------------ the pipeline
Reqs == {"r1", "r2"}
\* the request slot followed when one request is in flight
Single == {"r1"}

\* a request not yet received
NewTask ==
  [st |-> "new",             \* new, called (the future exists), done, panicked
   req |-> NoReq,            \* the request given to Middleware::call
   fut |-> "None",           \* the arm of HandlerFuture
   inner |-> NoResult,       \* the arm's fut: None, Pending, Ok(res), Err(e)
   svc_calls |-> 0,          \* calls of service.call
   svc_req |-> NoReq,        \* the request service.call was given
   skip_calls |-> 0,         \* calls of Handler::skip
   process_calls |-> 0,      \* calls of Handler::process
   process_at |-> 0,         \* the clock reading of process
   process_out |-> NoEither, \* what process returned
   post_calls |-> 0,         \* calls of Handler::post
   post_arg |-> NoResp,      \* the response post was given
   post_at |-> 0,            \* the clock reading of post
   pending |-> 0,            \* polls that returned Poll::Pending
   out |-> NoResult]         \* Poll::Ready(out)

Pending == [tag |-> "Pending", res |-> NoResp, err |-> ""]

\* Middleware::call, were the inner stage called before the handler decides
MiddlewareCallEager(c, checks, req, now_ms) ==
  IF Skip(c, req)
  THEN [NewTask EXCEPT !.st = "called", !.req = req, !.skip_calls = 1,
                       !.fut = "SkipFuture", !.inner = Pending,
                       !.svc_calls = 1, !.svc_req = req]
  ELSE IF ProcessPanics(c, checks, req, now_ms)
  THEN [NewTask EXCEPT !.st = "panicked", !.req = req, !.skip_calls = 1,
                       !.process_calls = 1, !.process_at = now_ms]
  ELSE LET e == Process(c, req, now_ms)
       IN  [NewTask EXCEPT !.st = "called", !.req = req, !.skip_calls = 1,
                           !.process_calls = 1, !.process_at = now_ms,
                           !.process_out = e,
                           !.fut = IF e.tag = "Left" THEN "ErrorHandlerFuture"
                                   ELSE "HandlerFuture",
                           !.inner = IF e.tag = "Left" THEN Ok(e.res) ELSE Pending,
                           !.svc_calls = 1, !.svc_req = req]

\* Middleware::call on a request: the task once call returns (or panics)
MiddlewareCall(c, checks, req, now_ms) ==
  IF Skip(c, req)
  THEN [NewTask EXCEPT !.st = "called", !.req = req, !.skip_calls = 1,
                       !.fut = "SkipFuture", !.inner = Pending,
                       !.svc_calls = 1, !.svc_req = req]
  ELSE IF ProcessPanics(c, checks, req, now_ms)
  THEN [NewTask EXCEPT !.st = "panicked", !.req = req, !.skip_calls = 1,
                       !.process_calls = 1, !.process_at = now_ms]
  ELSE LET e == Process(c, req, now_ms)
       IN  IF e.tag = "Left"
           THEN [NewTask EXCEPT !.st = "called", !.req = req, !.skip_calls = 1,
                                !.process_calls = 1, !.process_at = now_ms,
                                !.process_out = e,
                                !.fut = "ErrorHandlerFuture", !.inner = Ok(e.res)]
           ELSE [NewTask EXCEPT !.st = "called", !.req = req, !.skip_calls = 1,
                                !.process_calls = 1, !.process_at = now_ms,
                                !.process_out = e,
                                !.fut = "HandlerFuture", !.inner = Pending,
                                !.svc_calls = 1, !.svc_req = e.req]

\* the completion of an arm that applies post
PollPost(c, t, now_ms) ==
  [t EXCEPT !.st = "done", !.post_calls = t.post_calls + 1,
            !.post_arg = t.inner.res, !.post_at = now_ms,
            !.out = Ok(Post(c, t.inner.res, now_ms))]

\* HandlerFuture::poll, were post applied a second time to a reject response
HandlerPollTwice(c, t, now_ms) ==
  IF t.inner.tag = "Pending"
  THEN [t EXCEPT !.pending = t.pending + 1]
  ELSE IF t.inner.tag = "Err"
  THEN [t EXCEPT !.st = "done", !.out = Err(t.inner.err)]
  ELSE IF t.fut = "SkipFuture"
  THEN [t EXCEPT !.st = "done", !.out = Ok(t.inner.res)]
  ELSE IF t.fut = "ErrorHandlerFuture"
  THEN [PollPost(c, t, now_ms) EXCEPT !.post_calls = t.post_calls + 2]
  ELSE PollPost(c, t, now_ms)

\* HandlerFuture::poll, were post applied in the SkipFuture arm too
HandlerPollPostAll(c, t, now_ms) ==
  IF t.inner.tag = "Pending"
  THEN [t EXCEPT !.pending = t.pending + 1]
  ELSE IF t.inner.tag = "Err"
  THEN [t EXCEPT !.st = "done", !.out = Err(t.inner.err)]
  ELSE PollPost(c, t, now_ms)

\* HandlerFuture::poll, were the HandlerFuture arm to relay the inner response
HandlerPollNoPost(c, t, now_ms) ==
  IF t.inner.tag = "Pending"
  THEN [t EXCEPT !.pending = t.pending + 1]
  ELSE IF t.inner.tag = "Err"
  THEN [t EXCEPT !.st = "done", !.out = Err(t.inner.err)]
  ELSE IF t.fut \in {"SkipFuture", "HandlerFuture"}
  THEN [t EXCEPT !.st = "done", !.out = Ok(t.inner.res)]
  ELSE PollPost(c, t, now_ms)

\* HandlerFuture::poll, were the ErrorHandlerFuture arm to wait one poll
HandlerPollYield(c, t, now_ms) ==
  IF t.inner.tag = "Pending" \/ (t.fut = "ErrorHandlerFuture" /\ t.pending = 0)
  THEN [t EXCEPT !.pending = t.pending + 1]
  ELSE IF t.inner.tag = "Err"
  THEN [t EXCEPT !.st = "done", !.out = Err(t.inner.err)]
  ELSE IF t.fut = "SkipFuture"
  THEN [t EXCEPT !.st = "done", !.out = Ok(t.inner.res)]
  ELSE PollPost(c, t, now_ms)

\* HandlerFuture::poll, were an inner failure turned into a response
HandlerPollRecover(c, t, now_ms) ==
  IF t.inner.tag = "Pending"
  THEN [t EXCEPT !.pending = t.pending + 1]
  ELSE IF t.inner.tag = "Err"
  THEN [t EXCEPT !.st = "done", !.post_calls = t.post_calls + 1,
                 !.post_arg = InternalServerError, !.post_at = now_ms,
                 !.out = Ok(Post(c, InternalServerError, now_ms))]
  ELSE IF t.fut = "SkipFuture"
  THEN [t EXCEPT !.st = "done", !.out = Ok(t.inner.res)]
  ELSE PollPost(c, t, now_ms)

\* HandlerFuture::poll on a future that has not completed
HandlerPoll(c, t, now_ms) ==
  IF t.inner.tag = "Pending"
  THEN [t EXCEPT !.pending = t.pending + 1]
  ELSE IF t.inner.tag = "Err"
  THEN [t EXCEPT !.st = "done", !.out = Err(t.inner.err)]
  ELSE IF t.fut = "SkipFuture"
  THEN [t EXCEPT !.st = "done", !.out = Ok(t.inner.res)]
  ELSE PollPost(c, t, now_ms)

\* --------------------------------------------------------------- the inputs
SaltBytes == {115}
Salts == UNION {[1..n -> SaltBytes] : n \in 0..MaxSaltLen}

\* a secret that is not the handler's
OtherSalt(salt) == IF salt = <<116>> THEN <<115>> ELSE <<116>>

\* the hex digits a..f in upper case
Upper(s) == [i \in 1..Len(s) |-> IF s[i] \in 97..102 THEN s[i] - 32 ELSE s[i]]

\* the token with its last digest byte changed
BadDigest(bytes) ==
  [bytes EXCEPT ![Len(bytes)] = (bytes[Len(bytes)] + 1) % 256]

\* header values a client may send
Candidates(c) ==
  {Token(c.salt, t) : t \in 0..MaxNow}
    \cup {Token(OtherSalt(c.salt), 0),
          Upper(Token(c.salt, 0)),
          HexEncode(BadDigest(HexDecode(Token(c.salt, 0)).val)),
          HexEncode(ToLeBytes(TsMin) \o Sha256(ToLeBytes(TsMin) \o c.salt)),
          HexEncode(ToLeBytes(TsMin) \o [i \in 1..HashLen |-> 0]),
          HexEncode(ToLeBytes(0)),
          <<97>>,
          <<122, 122>>,
          <<200>>}

Paths == {Slash \o Str_h, Slash \o Str_h \o Slash \o Str_l, Slash \o Str_h \o Str_c}

Requests(c) ==
  {[path |-> p, headers |-> [NoHeaders EXCEPT ![c.header_name] = h]] :
     p \in Paths, h \in {<<>>} \cup {<<v>> : v \in Candidates(c)}}

\* what the inner stage may answer
InnerResponses ==
  {[status |-> s, headers |-> [NoHeaders EXCEPT !["x-token"] = h, !["x-other"] = <<Str_c>>],
    body |-> "inner"] :
     s \in {200, 404}, h \in {<<>>, <<Str_h, Str_l>>}}
    \cup {[status |-> s, headers |-> NoHeaders, body |-> "inner"] : s \in {299, 300}}

InnerResults == {Ok(r) : r \in InnerResponses} \cup {Err("inner")}

Configs ==
  [skip_urls : {<<Slash \o Str_h>>},
   salt : Salts,
   effective : 0..MaxWindow,
   header_name : {"x-token"}]

NoCodec == [minted |-> <<>>, minted_at |-> 0, verified |-> <<>>, verified_at |-> 0,
            result |-> "none", uses |-> 0]

\* one bit of a byte string changed: bit k % 8 of byte k \div 8 (from 0)
FlipBit(bytes, k) ==
  LET i == (k \div 8) + 1
      w == 2 ^ (k % 8)
  IN  [bytes EXCEPT ![i] = IF (bytes[i] \div w) % 2 = 1 THEN bytes[i] - w
                           ELSE bytes[i] + w]

\* a token with one bit of its bytes changed, hex-encoded again
Tampered(token) ==
  {HexEncode(FlipBit(HexDecode(token).val, k)) : k \in 0..(8 * TokenLen - 1)}

\* tokens of the right length with the right digest, whatever the timestamp
Signed(c) ==
  {HexEncode(ToLeBytes(ts) \o Sha256(ToLeBytes(ts) \o c.salt)) :
     ts \in {TsMin, TsMin + 1, -1, TsMax}}

\* strings that are no hex, or that decode to another length than TokenLen
Malformed(c) ==
  {<<>>,
   <<97>>,
   <<122, 122>>,
   <<195, 169>>,
   [Token(c.salt, 0) EXCEPT ![1] = 122],
   Token(c.salt, 0) \o <<48>>,
   Token(c.salt, 0) \o <<48, 48>>,
   SubSeq(Token(c.salt, 0), 1, 2 * TokenLen - 2),
   HexEncode(ToLeBytes(0))}

\* the strings verify_token is called with
CodecCandidates(c) ==
  Candidates(c) \cup Signed(c) \cup Malformed(c)

Init ==
  /\ cfg \in Configs
  /\ overflow_checks \in BOOLEAN
  /\ now = 0
  /\ task = [i \in Reqs |-> NewTask]
  /\ codec = NoCodec

\* the clock advances
Tick ==
  /\ now < MaxNow
  /\ now' = now + 1
  /\ UNCHANGED <<cfg, overflow_checks, task, codec>>

\* a request arrives: Middleware::call
Call(i, req) ==
  /\ task[i].st = "new"
  /\ task' = [task EXCEPT ![i] = MiddlewareCall(cfg, overflow_checks, req, now)]
  /\ UNCHANGED <<cfg, overflow_checks, now, codec>>

\* the inner stage's future completes, were its result kept in one place
\* for every request in flight
ServiceCompleteShared(i, r) ==
  /\ task[i].st = "called"
  /\ task[i].fut \in {"SkipFuture", "HandlerFuture"}
  /\ task[i].inner.tag = "Pending"
  /\ task' = [j \in Reqs |->
                IF task[j].st = "called" /\ task[j].inner.tag = "Pending"
                THEN [task[j] EXCEPT !.inner = r] ELSE task[j]]
  /\ UNCHANGED <<cfg, overflow_checks, now, codec>>

\* the inner stage's future completes
ServiceComplete(i, r) ==
  /\ task[i].st = "called"
  /\ task[i].fut \in {"SkipFuture", "HandlerFuture"}
  /\ task[i].inner.tag = "Pending"
  /\ task' = [task EXCEPT ![i].inner = r]
  /\ UNCHANGED <<cfg, overflow_checks, now, codec>>

\* the scheduler polls a future that has not completed
Poll(i) ==
  /\ task[i].st = "called"
  /\ task[i].inner.tag = "Pending" => task[i].pending < MaxPolls
  /\ task' = [task EXCEPT ![i] = HandlerPoll(cfg, task[i], now)]
  /\ UNCHANGED <<cfg, overflow_checks, now, codec>>

\* a direct call of CSRF::generate_token
GenerateToken ==
  /\ codec' = [NoCodec EXCEPT !.minted = Token(cfg.salt, now), !.minted_at = now]
  /\ UNCHANGED <<cfg, overflow_checks, now, task>>

\* the outcome of a direct call of CSRF::verify_token
VerifyResult(c, checks, test_token, now_ms) ==
  IF VerifyPanics(c, checks, test_token, now_ms) THEN "panic"
  ELSE IF VerifyToken(c, test_token, now_ms) THEN "true" ELSE "false"

\* a direct call of CSRF::verify_token, were an accepted token spent
VerifyOnce(test_token) ==
  /\ codec.uses < MaxUses
  /\ codec' = [codec EXCEPT !.verified = test_token, !.verified_at = now,
                            !.result = IF test_token = codec.minted /\ codec.uses > 0
                                       THEN "false"
                                       ELSE VerifyResult(cfg, overflow_checks, test_token, now),
                            !.uses = IF /\ test_token = codec.minted
                                        /\ VerifyResult(cfg, overflow_checks, test_token, now)
                                             = "true"
                                     THEN codec.uses + 1 ELSE codec.uses]
  /\ UNCHANGED <<cfg, overflow_checks, now, task>>

\* a direct call of CSRF::verify_token
Verify(test_token) ==
  /\ codec.uses < MaxUses
  /\ codec' = [codec EXCEPT !.verified = test_token, !.verified_at = now,
                            !.result = VerifyResult(cfg, overflow_checks, test_token, now),
                            !.uses = IF /\ test_token = codec.minted
                                        /\ VerifyResult(cfg, overflow_checks, test_token, now)
                                             = "true"
                                     THEN codec.uses + 1 ELSE codec.uses]
  /\ UNCHANGED <<cfg, overflow_checks, now, task>>

Next ==
  \/ Tick
  \/ \E i \in Single : \E req \in Requests(cfg) : Call(i, req)
  \/ \E i \in Single : \E r \in InnerResults : ServiceComplete(i, r)
  \/ \E i \in Single : Poll(i)

Spec == Init /\ [][Next]_vars

\* the token codec called directly
NextCodec ==
  \/ Tick
  \/ GenerateToken
  \/ \E v \in CodecCandidates(cfg) : Verify(v)

SpecCodec == Init /\ [][NextCodec]_vars

\* the token codec called on a minted token with one bit changed
NextTamper ==
  \/ Tick
  \/ GenerateToken
  \/ /\ codec.minted # <<>>
     /\ \E v \in Tampered(codec.minted) : Verify(v)

SpecTamper == Init /\ [][NextTamper]_vars

\* ---------------------------------------------------------------- the claims
\* the arms of HandlerFuture
Arms == {"SkipFuture", "HandlerFuture", "ErrorHandlerFuture"}

\* C1: when skip is false and process returns Reject (Either::Left), the
\* inner stage's service.call is never invoked for the request, in any state
\* before or after the pipeline future completes.
C1_RejectNeverCallsService ==
  \A i \in Reqs :
    task[i].process_out.tag = "Left" =>
      /\ task[i].svc_calls = 0
      /\ task[i].svc_req = NoReq
      /\ task[i].fut = "ErrorHandlerFuture"

C1_Witness ==
  \E i \in Reqs :
    /\ task[i].st = "done"
    /\ ~Skip(cfg, task[i].req)
    /\ task[i].process_out.tag = "Left"
    /\ task[i].svc_calls = 0

\* C2: a request whose call returned has exactly one of the three arms, the
\* arm is chosen by call and no later step changes it, and post runs at most
\* once over the life of the request.
C2_BranchState ==
  \A i \in Reqs :
    /\ task[i].st \in {"called", "done"} <=> task[i].fut \in Arms
    /\ task[i].st \in {"new", "panicked"} <=> task[i].fut = "None"
    /\ task[i].post_calls <= 1

C2_BranchStep ==
  \A i \in Reqs :
    /\ task[i].fut # "None" => task'[i].fut = task[i].fut
    /\ task'[i].fut # task[i].fut => task[i].st = "new"
    /\ task'[i].post_calls >= task[i].post_calls

C2_OneBranchPostOnce == [](C2_BranchState) /\ [][C2_BranchStep]_vars

C2_Witness ==
  \E i \in Reqs :
    /\ task[i].st = "done"
    /\ task[i].fut = "HandlerFuture"
    /\ task[i].pending > 0
    /\ task[i].post_calls = 1

\* C3: when skip(request) is true, process and post never run for the
\* request, the inner stage gets the original request, and the pipeline
\* completes with exactly the inner stage's result, whatever token the
\* request carries (none, invalid, expired).
C3_PassThrough ==
  \A i \in Reqs :
    (task[i].st # "new" /\ Skip(cfg, task[i].req)) =>
      /\ task[i].fut = "SkipFuture"
      /\ task[i].process_calls = 0
      /\ task[i].post_calls = 0
      /\ task[i].svc_calls = 1
      /\ task[i].svc_req = task[i].req
      /\ task[i].st = "done" <=> task[i].out # NoResult
      /\ task[i].st = "done" => task[i].out = task[i].inner

\* an exempt-path request with no token header, answered 200 with no token
C3_Witness ==
  \E i \in Reqs :
    /\ task[i].st = "done"
    /\ Skip(cfg, task[i].req)
    /\ ~HasHeader(task[i].req.headers, cfg.header_name)
    /\ task[i].out.tag = "Ok"
    /\ task[i].out.res.status = 200
    /\ ~HasHeader(task[i].out.res.headers, cfg.header_name)

\* C4: when process returns Admit(req') (Either::Right), the inner stage is
\* called exactly once, with req'; while the inner future is pending every
\* poll returns Pending and post has not run; once it has completed with a
\* response r the pipeline completes with post(r), post having run exactly
\* once, after the inner completion.
C4_ForwardState ==
  \A i \in Reqs :
    task[i].process_out.tag = "Right" =>
      /\ task[i].fut = "HandlerFuture"
      /\ task[i].svc_calls = 1
      /\ task[i].svc_req = task[i].process_out.req
      /\ task[i].inner.tag = "Pending" =>
           (task[i].st = "called" /\ task[i].post_calls = 0 /\ task[i].out = NoResult)
      /\ (task[i].st = "done" /\ task[i].inner.tag = "Ok") =>
           /\ task[i].post_calls = 1
           /\ task[i].post_arg = task[i].inner.res
           /\ task[i].out = Ok(Post(cfg, task[i].inner.res, task[i].post_at))

C4_ForwardStep ==
  \A i \in Reqs :
    task[i].fut = "HandlerFuture" =>
      /\ task[i].inner.tag = "Pending" =>
           (task'[i].st = "called" /\ task'[i].post_calls = 0 /\ task'[i].out = NoResult)
      /\ task'[i].post_calls > task[i].post_calls =>
           (task[i].inner.tag = "Ok" /\ task'[i].st = "done")
      /\ (task[i].inner.tag = "Ok" /\ task'[i] # task[i]) =>
           (task'[i].st = "done" /\ task'[i].post_calls = 1)

C4_Forward == [](C4_ForwardState) /\ [][C4_ForwardStep]_vars

\* a forwarded request that was polled while pending and then completed
C4_Witness ==
  \E i \in Reqs :
    /\ task[i].st = "done"
    /\ task[i].fut = "HandlerFuture"
    /\ task[i].pending > 0
    /\ task[i].out.tag = "Ok"
    /\ task[i].out.res # task[i].inner.res

\* C5: when process returns Reject(r), the pipeline future completes on its
\* first poll (no poll returns Pending) with post(r): post is applied to the
\* reject response before completion.
C5_ShortCircuitState ==
  \A i \in Reqs :
    task[i].process_out.tag = "Left" =>
      /\ task[i].inner = Ok(task[i].process_out.res)
      /\ task[i].pending = 0
      /\ task[i].st \in {"called", "done"}
      /\ task[i].st = "called" => (task[i].post_calls = 0 /\ task[i].out = NoResult)
      /\ task[i].st = "done" =>
           /\ task[i].post_calls = 1
           /\ task[i].post_arg = task[i].process_out.res
           /\ task[i].out = Ok(Post(cfg, task[i].process_out.res, task[i].post_at))

C5_ShortCircuitStep ==
  \A i \in Reqs :
    (task[i].fut = "ErrorHandlerFuture" /\ task'[i] # task[i]) =>
      (task'[i].st = "done" /\ task'[i].pending = 0)

C5_ShortCircuit == [](C5_ShortCircuitState) /\ [][C5_ShortCircuitStep]_vars

C5_Witness ==
  \E i \in Reqs :
    /\ task[i].st = "done"
    /\ task[i].process_out = Left(Forbidden)
    /\ task[i].post_calls = 1
    /\ task[i].out = Ok(Forbidden)

\* C6: when the inner stage completes with a failure, in the PassThrough or
\* the Forward branch, the pipeline completes with that same failure: it is
\* not turned into a response and post does not run for the request.
C6_InnerFailureRelayed ==
  \A i \in Reqs :
    (task[i].st = "done" /\ task[i].inner.tag = "Err") =>
      /\ task[i].fut \in {"SkipFuture", "HandlerFuture"}
      /\ task[i].out = task[i].inner
      /\ task[i].out.tag = "Err"
      /\ task[i].post_calls = 0

C6_Witness ==
  \E i \in Reqs :
    /\ task[i].st = "done"
    /\ task[i].fut = "HandlerFuture"
    /\ task[i].inner = Err("inner")
    /\ task[i].out = Err("inner")

\* the value of the configured header on the request of task i
Submitted(i) == GetHeader(task[i].req.headers, cfg.header_name)

\* C7: process returns Admit (Either::Right) with the request unchanged if
\* and only if the configured header is present, is valid text and
\* verify_token succeeds on it; in every other case it returns Reject
\* (Either::Left) with status 403 and body "Forbidden".
C7_ProcessAdmitIffVerified ==
  \A i \in Reqs :
    task[i].process_calls > 0 =>
      IF /\ HasHeader(task[i].req.headers, cfg.header_name)
         /\ ToStrOk(Submitted(i))
         /\ VerifyToken(cfg, Submitted(i), task[i].process_at)
      THEN task[i].process_out = Right(task[i].req)
      ELSE /\ task[i].process_out.tag = "Left"
           /\ task[i].process_out.res.status = 403
           /\ task[i].process_out.res.body = "Forbidden"

\* C8: post changes a response exactly when its status is 2xx: then the
\* configured header is set to the token minted at that moment, in place of
\* every value it had, and status, body and the other headers are kept; a
\* response of any other status (the 403 of a reject too) is returned as is.
C8_PostFrame ==
  \A i \in Reqs :
    (task[i].st = "done" /\ task[i].post_calls = 1) =>
      LET r == task[i].post_arg
          o == task[i].out.res
      IN  /\ task[i].out.tag = "Ok"
          /\ IF r.status \in 200..299
             THEN /\ o.headers[cfg.header_name] = <<Token(cfg.salt, task[i].post_at)>>
                  /\ o.status = r.status
                  /\ o.body = r.body
                  /\ \A n \in HeaderNames \ {cfg.header_name} : o.headers[n] = r.headers[n]
             ELSE o = r

\* a 200 whose header had a value, now replaced, and a 403 left as it was
C8_Witness ==
  \E i \in Reqs :
    /\ task[i].st = "done"
    /\ task[i].post_calls = 1
    /\ task[i].post_arg.status = 200
    /\ task[i].post_arg.headers[cfg.header_name] = <<Str_h, Str_l>>
    /\ task[i].out.res.headers[cfg.header_name] = <<Token(cfg.salt, task[i].post_at)>>

\* the embedded timestamp of a header value that decodes to a token
SubmittedTs(i) == FromLeBytes(TsField(HexDecode(Submitted(i)).val))

\* a request on a protected path carrying a token the handler minted at t,
\* processed while t <= now <= t + effective
FreshValid(i) ==
  /\ task[i].st # "new"
  /\ ~Skip(cfg, task[i].req)
  /\ HasHeader(task[i].req.headers, cfg.header_name)
  /\ \E t \in 0..MaxNow :
       /\ Submitted(i) = Token(cfg.salt, t)
       /\ t <= task[i].process_at
       /\ task[i].process_at - t <= cfg.effective

\* an admitted request whose inner stage answered 200
Answered200(i) ==
  /\ task[i].st = "done"
  /\ task[i].fut = "HandlerFuture"
  /\ task[i].inner.tag = "Ok"
  /\ task[i].inner.res.status = 200

\* C9 as stated: a request with a valid, fresh token is admitted, and when
\* the inner stage answers 200 the response carries the configured header
\* with a token different from the submitted one, at every timing of the
\* clock.
C9_FreshTokenDiffers ==
  \A i \in Reqs :
    /\ FreshValid(i) => task[i].process_out = Right(task[i].req)
    /\ (FreshValid(i) /\ Answered200(i)) =>
         /\ HasHeader(task[i].out.res.headers, cfg.header_name)
         /\ GetHeader(task[i].out.res.headers, cfg.header_name) # Submitted(i)

\* C9 amended: a request with a valid, fresh token is admitted, and when the
\* inner stage answers 200 the response carries the configured header with
\* the token minted at the clock reading of the response; it differs from
\* the submitted token when that reading differs from the submitted token's
\* timestamp, and is the same token when the response is produced in the
\* millisecond the submitted token was minted in.
C9_FreshTokenDiffersAfterTick ==
  \A i \in Reqs :
    /\ FreshValid(i) => task[i].process_out = Right(task[i].req)
    /\ (FreshValid(i) /\ Answered200(i)) =>
         /\ task[i].out.res.headers[cfg.header_name]
              = <<Token(cfg.salt, task[i].post_at)>>
         /\ task[i].post_at # SubmittedTs(i) =>
              GetHeader(task[i].out.res.headers, cfg.header_name) # Submitted(i)
         /\ task[i].post_at = SubmittedTs(i) =>
              GetHeader(task[i].out.res.headers, cfg.header_name) = Submitted(i)

\* a fresh token answered one millisecond after its mint, with a new token
C9_Witness ==
  \E i \in Reqs :
    /\ FreshValid(i)
    /\ Answered200(i)
    /\ task[i].post_at > SubmittedTs(i)
    /\ GetHeader(task[i].out.res.headers, cfg.header_name) # Submitted(i)

\* C10: for every secret and every window >= 0, window 0 too, the token
\* generate_token returns is accepted by verify_token under the same secret
\* and window when verified right after minting (at the clock reading of
\* the mint).
C10_RoundTrip ==
  (/\ codec.result # "none"
   /\ codec.minted # <<>>
   /\ codec.verified = codec.minted
   /\ codec.verified_at = codec.minted_at) => codec.result = "true"

C10_Witness ==
  /\ cfg.effective = 0
  /\ codec.minted = Token(cfg.salt, now)
  /\ codec.verified = codec.minted
  /\ codec.verified_at = codec.minted_at
  /\ codec.result = "true"

\* CSRF::skip followed alone: exempt entries that are empty, "/", plain, or
\* end in '/', and paths around them
ExemptEntries == {<<>>, Slash, Slash \o Str_h, Slash \o Str_h \o Slash}

SkipLists == UNION {[1..n -> ExemptEntries] : n \in 0..MaxExempt}

SkipPaths ==
  {Slash,
   Slash \o Str_h,
   Slash \o Str_h \o Slash,
   Slash \o Str_h \o Slash \o Str_l,
   Slash \o Str_h \o Str_c,
   Slash \o Str_c,
   Slash \o Slash \o Str_h,
   Slash \o Str_h \o Slash \o Slash \o Str_l}

InitSkip ==
  /\ cfg \in [skip_urls : SkipLists, salt : {<<>>}, effective : {0},
               header_name : {"x-token"}]
  /\ overflow_checks \in BOOLEAN
  /\ now = 0
  /\ task = [i \in Reqs |-> NewTask]
  /\ codec = NoCodec

NextSkip ==
  \E i \in Single : \E p \in SkipPaths : Call(i, [path |-> p, headers |-> NoHeaders])

SpecSkip == InitSkip /\ [][NextSkip]_vars

\* several requests in flight on one pipeline stage
PairConfigs ==
  [skip_urls : {<<Slash \o Str_h>>},
   salt : {<<115>>},
   effective : {MaxWindow},
   header_name : {"x-token"}]

\* header values, one for each way process can go: a token of the first
\* clock reading, one of the last, a wrong digest, no hex, a wrong length,
\* no text, and the earliest timestamp with its right digest
PairCandidates(c) ==
  {Token(c.salt, 0),
   Token(c.salt, MaxNow),
   HexEncode(BadDigest(HexDecode(Token(c.salt, 0)).val)),
   <<122, 122>>,
   HexEncode(ToLeBytes(0)),
   <<200>>,
   HexEncode(ToLeBytes(TsMin) \o Sha256(ToLeBytes(TsMin) \o c.salt))}

PairRequests(c) ==
  {[path |-> Slash \o Str_h, headers |-> NoHeaders]}
    \cup {[path |-> Slash \o Str_h \o Str_c,
           headers |-> [NoHeaders EXCEPT ![c.header_name] = h]] :
            h \in {<<>>} \cup {<<v>> : v \in PairCandidates(c)}}

PairInnerResults ==
  {Ok([status |-> s, headers |-> NoHeaders, body |-> "inner"]) : s \in {200, 404}}
    \cup {Err("inner")}

InitPair ==
  /\ cfg \in PairConfigs
  /\ overflow_checks \in BOOLEAN
  /\ now = 0
  /\ task = [i \in Reqs |-> NewTask]
  /\ codec = NoCodec

NextPair ==
  \/ Tick
  \/ \E i \in Reqs : \E req \in PairRequests(cfg) : Call(i, req)
  \/ \E i \in Reqs : \E r \in PairInnerResults : ServiceComplete(i, r)
  \/ \E i \in Reqs : Poll(i)

SpecPair == InitPair /\ [][NextPair]_vars

\* ------------------------------------------------------- claims on skip
\* the segments of a path: what lies between its '/' characters
RECURSIVE Split(_)
Split(s) ==
  IF \A i \in 1..Len(s) : s[i] # 47 THEN <<s>>
  ELSE LET i == CHOOSE j \in 1..Len(s) :
                  s[j] = 47 /\ \A k \in 1..(j - 1) : s[k] # 47
       IN  <<SubSeq(s, 1, i - 1)>> \o Split(SubSeq(s, i + 1, Len(s)))

\* the segments of e, then at least one more
SegmentsBelow(path, e) ==
  /\ Len(Split(e)) < Len(Split(path))
  /\ SubSeq(Split(path), 1, Len(Split(e))) = Split(e)

\* path lies below e in the hierarchy of paths: it goes on after e across a
\* '/' boundary, the one e ends in or the one that follows e
SubPathOf(path, e) ==
  LET dir == IF Len(e) > 0 /\ e[Len(e)] = 47 THEN e ELSE e \o Slash
  IN  Len(path) >= Len(dir) /\ SubSeq(path, 1, Len(dir)) = dir

\* C15 as stated: skip(path) is true if and only if, for some exempt entry
\* e, path equals e or path is a sub-path of e across a '/'; for every
\* entry, the empty one, "/" and those ending in '/' too.
C15_SkipIffSubPath ==
  \A i \in Reqs :
    task[i].st # "new" =>
      (task[i].fut = "SkipFuture" <=>
         \E k \in 1..Len(cfg.skip_urls) :
           \/ task[i].req.path = cfg.skip_urls[k]
           \/ SubPathOf(task[i].req.path, cfg.skip_urls[k]))

\* C15 amended: skip(path) is true if and only if, for some exempt entry e,
\* path equals e or the '/'-separated segments of path begin with all the
\* segments of e and have more. For an entry that does not end in '/' (the
\* empty one too) these are the paths below e; an entry ending in '/' has an
\* empty last segment, so it exempts itself and the paths that go on with
\* another '/', not the paths below it.
C15_SkipIffSegmentPrefix ==
  \A i \in Reqs :
    task[i].st # "new" =>
      (task[i].fut = "SkipFuture" <=>
         \E k \in 1..Len(cfg.skip_urls) :
           \/ task[i].req.path = cfg.skip_urls[k]
           \/ SegmentsBelow(task[i].req.path, cfg.skip_urls[k]))

\* the entry "/h/" alone: "/h//l" is exempt
C15_Witness ==
  \E i \in Reqs :
    /\ cfg.skip_urls = <<Slash \o Str_h \o Slash>>
    /\ task[i].req.path = Slash \o Str_h \o Slash \o Slash \o Str_l
    /\ task[i].fut = "SkipFuture"
    /\ task[i].process_calls = 0

\* ------------------------------------------------------ claims on the codec
\* a string of hex digits of even length
IsHexText(s) ==
  /\ Len(s) % 2 = 0
  /\ \A i \in 1..Len(s) : s[i] \in (48..57) \cup (65..70) \cup (97..102)

\* the string last verified is the hex of TokenLen bytes
VerifiedIsToken ==
  /\ codec.result # "none"
  /\ IsHexText(codec.verified)
  /\ Len(codec.verified) = 2 * TokenLen

\* the timestamp and the digest fields of the string last verified
VerifiedTs == FromLeBytes(TsField(HexDecode(codec.verified).val))
VerifiedDigestOk ==
  LET bytes == HexDecode(codec.verified).val
  IN  SubSeq(bytes, TsLen + 1, TokenLen) = Sha256(TsField(bytes) \o cfg.salt)

\* C11: a token minted at t with the handler's secret is accepted when
\* verified at exactly t + window and rejected at t + window + 1: the
\* boundary is inclusive.
C11_ExpiryBoundary ==
  \A t \in 0..MaxNow :
    (codec.result # "none" /\ codec.verified = Token(cfg.salt, t)) =>
      /\ codec.verified_at = t + cfg.effective => codec.result = "true"
      /\ codec.verified_at = t + cfg.effective + 1 => codec.result = "false"

\* a minted token accepted before, rejected one millisecond after its window
C11_Witness ==
  /\ codec.minted # <<>>
  /\ codec.verified = codec.minted
  /\ codec.uses > 0
  /\ codec.verified_at = codec.minted_at + cfg.effective + 1
  /\ codec.result = "false"

\* C12: verify_token rejects every TokenLen-byte token whose timestamp is
\* after the verifier's clock reading, also when its digest is the digest of
\* (timestamp || secret).
C12_FutureRejected ==
  (VerifiedIsToken /\ VerifiedTs > codec.verified_at) => codec.result = "false"

C12_Witness ==
  /\ VerifiedIsToken
  /\ VerifiedTs > codec.verified_at
  /\ VerifiedDigestOk
  /\ codec.result = "false"

\* C13: from a token verify_token accepts, changing one bit of the digest, or
\* one bit of the timestamp without a new digest, gives a candidate that
\* verify_token rejects (the digest is collision-free).
C13_TamperRejected ==
  (/\ codec.result # "none"
   /\ codec.minted # <<>>
   /\ codec.verified \in Tampered(codec.minted)
   /\ VerifyToken(cfg, codec.minted, codec.verified_at)) => codec.result = "false"

\* C14: for every string that is no valid hex, or that decodes to another
\* length than TokenLen bytes, verify_token returns false and does not panic.
C14_MalformedRejected ==
  (/\ codec.result # "none"
   /\ (~IsHexText(codec.verified) \/ Len(codec.verified) # 2 * TokenLen))
    => codec.result = "false"

\* a token with one character that is no hex digit
C14_Witness ==
  /\ codec.result = "false"
  /\ Len(codec.verified) = 2 * TokenLen
  /\ ~IsHexText(codec.verified)

\* C17: a token minted at t is accepted by every verification at a clock
\* reading n with t <= n <= t + window, however many came before and in
\* whatever order; an accepted verification leaves the token and the handler
\* as they were; the clock never goes back, so past t + window every
\* verification rejects it.
C17_ReuseState ==
  \A t \in 0..MaxNow :
    (codec.result # "none" /\ codec.verified = Token(cfg.salt, t)) =>
      (codec.result = "true" <=>
         (t <= codec.verified_at /\ codec.verified_at <= t + cfg.effective))

C17_ReuseStep ==
  /\ cfg' = cfg
  /\ now' >= now
  /\ codec'.uses > codec.uses =>
       (codec'.minted = codec.minted /\ codec'.minted_at = codec.minted_at)

C17_StatelessReuse == [](C17_ReuseState) /\ [][C17_ReuseStep]_vars

\* the minted token accepted twice, the second time after the clock moved
C17_Witness ==
  /\ codec.uses = 2
  /\ codec.verified = codec.minted
  /\ codec.verified_at > codec.minted_at
  /\ codec.result = "true"

\* C19: for every candidate that decodes to TokenLen bytes, whatever its
\* timestamp (near the minimum too), verify_token returns a boolean and does
\* not panic, and returns false unless the digest matches and
\* 0 <= now - timestamp <= window in unbounded arithmetic.
C19_VerifyTotal ==
  VerifiedIsToken =>
    /\ codec.result \in {"true", "false"}
    /\ codec.result = "true" =>
         /\ VerifiedDigestOk
         /\ 0 <= codec.verified_at - VerifiedTs
         /\ codec.verified_at - VerifiedTs <= cfg.effective

\* -------------------------------------------- claims on several requests
\* a request on a protected path that process refused, answered upstream
Rejected(i) ==
  /\ task[i].st = "done"
  /\ ~Skip(cfg, task[i].req)
  /\ task[i].process_out.tag = "Left"

\* C16: any two protected requests that are both rejected get the same
\* response upstream, whatever the reasons: status 403, body "Forbidden" and
\* no token under the configured header.
C16_RejectsAlike ==
  \A i, j \in Reqs :
    Rejected(i) /\ Rejected(j) =>
      /\ task[i].out = task[j].out
      /\ task[i].out.tag = "Ok"
      /\ task[i].out.res.status = 403
      /\ task[i].out.res.body = "Forbidden"
      /\ ~HasHeader(task[i].out.res.headers, cfg.header_name)

\* one request refused for an expired token, the other for a future-dated one
C16_Witness ==
  /\ Rejected("r1") /\ Rejected("r2")
  /\ HasHeader(task["r1"].req.headers, cfg.header_name)
  /\ HasHeader(task["r2"].req.headers, cfg.header_name)
  /\ Submitted("r1") = Token(cfg.salt, 0)
  /\ task["r1"].process_at > cfg.effective
  /\ Submitted("r2") = Token(cfg.salt, MaxNow)
  /\ task["r2"].process_at < MaxNow

\* two requests the handler was given alike come out alike
C18_SameInSameOut ==
  \A i, j \in Reqs :
    /\ ( /\ task[i].st # "new" /\ task[j].st # "new"
         /\ task[i].req = task[j].req
         /\ task[i].process_at = task[j].process_at )
       => /\ task[i].fut = task[j].fut
          /\ task[i].process_out = task[j].process_out
          /\ (task[i].st = "panicked") = (task[j].st = "panicked")
    /\ ( /\ task[i].st = "done" /\ task[j].st = "done"
         /\ task[i].req = task[j].req
         /\ task[i].process_at = task[j].process_at
         /\ task[i].inner = task[j].inner
         /\ task[i].post_at = task[j].post_at )
       => task[i].out = task[j].out

\* a step leaves the configuration alone and touches one request at most
C18_OwnStep ==
  /\ cfg' = cfg
  /\ \A i, j \in Reqs : i # j => task'[i] = task[i] \/ task'[j] = task[j]

\* C18: with several requests in flight, interleaved in any order, no step
\* changes the configuration, a step changes the state of one request only,
\* and two requests with the same content, the same inner result and the
\* same clock readings take the same branch and end in the same response
\* whatever the other request was doing.
C18_RequestsIndependent == []C18_SameInSameOut /\ [][C18_OwnStep]_vars

\* r2 was processed and answered between the process and the post of r1
C18_Witness ==
  /\ task["r1"].st = "done" /\ task["r2"].st = "done"
  /\ task["r1"].process_calls = 1 /\ task["r2"].process_calls = 1
  /\ task["r1"].post_calls = 1 /\ task["r2"].post_calls = 1
  /\ task["r1"].process_at < task["r2"].process_at
  /\ task["r2"].post_at < task["r1"].post_at
  /\ task["r1"].out # task["r2"].out

\* the response carries, under the configured header, a token of the handler
Obtained(i) ==
  /\ task[i].st = "done"
  /\ task[i].out.tag = "Ok"
  /\ HasHeader(task[i].out.res.headers, cfg.header_name)
  /\ \E t \in 0..MaxNow :
       GetHeader(task[i].out.res.headers, cfg.header_name) = Token(cfg.salt, t)

\* the request carried a token valid when it was processed: the handler's
\* digest, and an age from 0 to the window
HeldValid(i) ==
  /\ HasHeader(task[i].req.headers, cfg.header_name)
  /\ IsHexText(Submitted(i))
  /\ Len(Submitted(i)) = 2 * TokenLen
  /\ LET bytes == HexDecode(Submitted(i)).val
     IN  /\ SubSeq(bytes, TsLen + 1, TokenLen) = Sha256(TsField(bytes) \o cfg.salt)
         /\ SubmittedTs(i) <= task[i].process_at
         /\ task[i].process_at - SubmittedTs(i) <= cfg.effective

\* C20: over any requests through the pipeline, a response carries a token
\* of the handler only when its request was on a protected path, was
\* admitted by process and was answered 2xx by the inner stage, and so only
\* when the client already held a token valid at that time.
C20_TokenOnlyForHolder ==
  \A i \in Reqs :
    Obtained(i) =>
      /\ ~Skip(cfg, task[i].req)
      /\ task[i].process_out.tag = "Right"
      /\ task[i].inner.tag = "Ok"
      /\ IsSuccess(task[i].inner.res.status)
      /\ HeldValid(i)

====
